---- MODULE Spec2Model ----
(***************************************************************************)
(* A model of zap's Logger (logger.go and options.go): the snapshot and    *)
(* option composition (clone, Named, With, WithOptions, Sugar, New) and    *)
(* the admission pipeline Logger.check with the level-specific log calls.  *)
(*                                                                         *)
(* Logger values live in a heap and are referred to by pointer, as in the  *)
(* Go code, so that aliasing between a receiver and a derived logger is    *)
(* something the model can exhibit.  Go strings are sequences of           *)
(* one-character strings.                                                  *)
(***************************************************************************)
EXTENDS Integers, Sequences, FiniteSets, TLC

VARIABLES
    heap,      \* Seq of Logger structs; a *Logger is an index into it
    errLog,    \* what the most recent operation wrote to error-output sinks: Seq of [w, msg]
    ret,       \* the pointer returned by the most recent constructor/derivation
    issued,    \* history: issued[p] is *p as it was when p was handed out
    lineage,   \* history: lineage[p] = [parent, op, arg] of the call that made p
    obs,       \* what the most recent log call did (see NoObs)
    pc,        \* SpecConc: per-goroutine program counter
    loc        \* SpecConc: per-goroutine locals (receiver, operation, l/c, ...)

vars == <<heap, errLog, ret, issued, lineage, obs, pc, loc>>

(***************************************************************************)
(* Bounds of the model.                                                    *)
(***************************************************************************)
MaxLoggers == 3      \* Spec: Logger snapshots handed out in one run
MaxOpts == 2         \* SpecCheck: options passed to New
NumWorkers == 2      \* SpecConc: goroutines deriving from the shared logger

NULL == "nil"        \* a nil interface value (hook, error, writer)

(***************************************************************************)
(* zapcore levels, in increasing severity.                                 *)
(***************************************************************************)
DebugLevel == -1
InfoLevel == 0
WarnLevel == 1
ErrorLevel == 2
DPanicLevel == 3
PanicLevel == 4
FatalLevel == 5

Levels == DebugLevel .. FatalLevel

(***************************************************************************)
(* zapcore.CheckWriteAction values and the other hooks a caller can pass   *)
(* to WithFatalHook.  NULL is the nil hook.                                *)
(***************************************************************************)
WriteThenNoop == "WriteThenNoop"
WriteThenGoexit == "WriteThenGoexit"
WriteThenPanic == "WriteThenPanic"
WriteThenFatal == "WriteThenFatal"
CustomHook == "customHook"

(***************************************************************************)
(* Go strings.                                                             *)
(***************************************************************************)
EmptyStr == << >>
Sep == <<".">>

RECURSIVE Join(_, _)
\* strings.Join(elems, sep)
Join(elems, sep) ==
    IF Len(elems) = 0 THEN EmptyStr
    ELSE IF Len(elems) = 1 THEN elems[1]
    ELSE elems[1] \o sep \o Join(Tail(elems), sep)

(***************************************************************************)
(* The sink capability (zapcore.Core).  A core is the stack of wrappers    *)
(* around the core first given to New: each layer is [k, a].               *)
(***************************************************************************)
NilCore == << >>    \* the nil zapcore.Core
BaseCore == << [k |-> "base", a |-> << >>] >>
NopCore == << [k |-> "nop", a |-> << >>] >>

\* core.With(fields): a new core holding the accumulated fields
CoreWith(core, fs) == Append(core, [k |-> "With", a |-> fs])

\* zapcore.RegisterHooks(core, hooks...)
RegisterHooks(core) == Append(core, [k |-> "Hooks", a |-> << >>])

\* the f of WrapCore(f): wraps the core it is given
WrapFn(core) == Append(core, [k |-> "Wrap", a |-> << >>])

\* zapcore.NewIncreaseLevelCore(core, lvl): [core, err]; valid says whether
\* lvl is a level the existing core allows raising to
NewIncreaseLevelCore(core, valid) ==
    IF valid THEN [core |-> Append(core, [k |-> "Incr", a |-> << >>]), err |-> NULL]
    ELSE [core |-> NilCore, err |-> "invalid increase level"]

RECURSIVE CoreFields(_)
\* the fields a core adds to every entry it writes
CoreFields(core) ==
    IF Len(core) = 0 THEN << >>
    ELSE CoreFields(SubSeq(core, 1, Len(core) - 1)) \o core[Len(core)].a

(***************************************************************************)
(* Logger struct and constructors.                                         *)
(***************************************************************************)
Stderr == "stderr"
Discard == "discard"
DefaultClock == "DefaultClock"

\* the struct literal of New, before the options are applied
NewLogger(core) ==
    [core |-> core, development |-> FALSE, addCaller |-> FALSE, onFatal |-> NULL,
     name |-> EmptyStr, errorOutput |-> Stderr, addStack |-> FatalLevel + 1,
     callerSkip |-> 0, clock |-> DefaultClock]

\* the struct literal of NewNop
NopLogger ==
    [core |-> NopCore, development |-> FALSE, addCaller |-> FALSE, onFatal |-> NULL,
     name |-> EmptyStr, errorOutput |-> Discard, addStack |-> FatalLevel + 1,
     callerSkip |-> 0, clock |-> DefaultClock]

(***************************************************************************)
(* The memory the operations act on: m = [heap, errLog].  Every operation  *)
(* that returns a pointer yields [m, ret].                                 *)
(***************************************************************************)
Mem(h, e) == [heap |-> h, errLog |-> e]

\* &Logger{...}: allocate a new struct
Alloc(m, l) == [m |-> Mem(Append(m.heap, l), m.errLog), ret |-> Len(m.heap) + 1]

\* fmt.Fprintf(w, msg)
Fprintf(m, w, msg) == Mem(m.heap, Append(m.errLog, [w |-> w, msg |-> msg]))

\* clone that hands back the receiver itself
clone_alias(m, log) == [m |-> m, ret |-> log]

\* Logger.clone: copy := *log; return &copy
clone(m, log) == Alloc(m, m.heap[log])

(***************************************************************************)
(* Options.  An option is [o, b, n, s]: its constructor and its argument.  *)
(***************************************************************************)
Opt(o, b, n, s) == [o |-> o, b |-> b, n |-> n, s |-> s]

WrapCore == Opt("WrapCore", FALSE, 0, "")
Hooks == Opt("Hooks", FALSE, 0, "")
Fields(f) == Opt("Fields", FALSE, 0, f)
ErrorOutput(w) == Opt("ErrorOutput", FALSE, 0, w)
Development == Opt("Development", FALSE, 0, "")
WithCaller(enabled) == Opt("WithCaller", enabled, 0, "")
AddCaller == WithCaller(TRUE)
AddCallerSkip(skip) == Opt("AddCallerSkip", FALSE, skip, "")
AddStacktrace(lvl) == Opt("AddStacktrace", FALSE, lvl, "")
IncreaseLevel(valid) == Opt("IncreaseLevel", valid, 0, "")
WithFatalHook(hook) == Opt("WithFatalHook", FALSE, 0, hook)
OnFatal(action) == WithFatalHook(action)
WithClock(clock) == Opt("WithClock", FALSE, 0, clock)

\* options whose IncreaseLevel assigns the core even when it could not be built
apply_incrAssignsOnError(m, opt, log) ==
    LET l == m.heap[log]
        set(l2) == Mem([m.heap EXCEPT ![log] = l2], m.errLog)
    IN  CASE opt.o = "WrapCore" -> set([l EXCEPT !.core = WrapFn(l.core)])
          [] opt.o = "Hooks" -> set([l EXCEPT !.core = RegisterHooks(l.core)])
          [] opt.o = "Fields" -> set([l EXCEPT !.core = CoreWith(l.core, <<opt.s>>)])
          [] opt.o = "ErrorOutput" -> set([l EXCEPT !.errorOutput = opt.s])
          [] opt.o = "Development" -> set([l EXCEPT !.development = TRUE])
          [] opt.o = "WithCaller" -> set([l EXCEPT !.addCaller = opt.b])
          [] opt.o = "AddCallerSkip" -> set([l EXCEPT !.callerSkip = l.callerSkip + opt.n])
          [] opt.o = "AddStacktrace" -> set([l EXCEPT !.addStack = opt.n])
          [] opt.o = "IncreaseLevel" ->
                LET r == NewIncreaseLevelCore(l.core, opt.b)
                    m1 == IF r.err # NULL
                          THEN Fprintf(m, l.errorOutput, "failed to IncreaseLevel")
                          ELSE m
                IN  Mem([m1.heap EXCEPT ![log] = [l EXCEPT !.core = r.core]], m1.errLog)
          [] opt.o = "WithFatalHook" -> set([l EXCEPT !.onFatal = opt.s])
          [] opt.o = "WithClock" -> set([l EXCEPT !.clock = opt.s])

\* options whose Development switches caller annotation on as well
apply_devAddsCaller(m, opt, log) ==
    LET l == m.heap[log]
        set(l2) == Mem([m.heap EXCEPT ![log] = l2], m.errLog)
    IN  CASE opt.o = "WrapCore" -> set([l EXCEPT !.core = WrapFn(l.core)])
          [] opt.o = "Hooks" -> set([l EXCEPT !.core = RegisterHooks(l.core)])
          [] opt.o = "Fields" -> set([l EXCEPT !.core = CoreWith(l.core, <<opt.s>>)])
          [] opt.o = "ErrorOutput" -> set([l EXCEPT !.errorOutput = opt.s])
          [] opt.o = "Development" -> set([l EXCEPT !.development = TRUE, !.addCaller = TRUE])
          [] opt.o = "WithCaller" -> set([l EXCEPT !.addCaller = opt.b])
          [] opt.o = "AddCallerSkip" -> set([l EXCEPT !.callerSkip = l.callerSkip + opt.n])
          [] opt.o = "AddStacktrace" -> set([l EXCEPT !.addStack = opt.n])
          [] opt.o = "IncreaseLevel" ->
                LET r == NewIncreaseLevelCore(l.core, opt.b)
                    m1 == IF r.err # NULL
                          THEN Fprintf(m, l.errorOutput, "failed to IncreaseLevel")
                          ELSE m
                IN  IF r.err # NULL THEN m1
                    ELSE Mem([m1.heap EXCEPT ![log] = [l EXCEPT !.core = r.core]], m1.errLog)
          [] opt.o = "WithFatalHook" -> set([l EXCEPT !.onFatal = opt.s])
          [] opt.o = "WithClock" -> set([l EXCEPT !.clock = opt.s])

\* opt.apply(log): the option's closure run on the struct log points to
apply(m, opt, log) ==
    LET l == m.heap[log]
        set(l2) == Mem([m.heap EXCEPT ![log] = l2], m.errLog)
    IN  CASE opt.o = "WrapCore" -> set([l EXCEPT !.core = WrapFn(l.core)])
          [] opt.o = "Hooks" -> set([l EXCEPT !.core = RegisterHooks(l.core)])
          [] opt.o = "Fields" -> set([l EXCEPT !.core = CoreWith(l.core, <<opt.s>>)])
          [] opt.o = "ErrorOutput" -> set([l EXCEPT !.errorOutput = opt.s])
          [] opt.o = "Development" -> set([l EXCEPT !.development = TRUE])
          [] opt.o = "WithCaller" -> set([l EXCEPT !.addCaller = opt.b])
          [] opt.o = "AddCallerSkip" -> set([l EXCEPT !.callerSkip = l.callerSkip + opt.n])
          [] opt.o = "AddStacktrace" -> set([l EXCEPT !.addStack = opt.n])
          [] opt.o = "IncreaseLevel" ->
                LET r == NewIncreaseLevelCore(l.core, opt.b)
                IN  IF r.err # NULL
                    THEN Fprintf(m, l.errorOutput, "failed to IncreaseLevel")
                    ELSE set([l EXCEPT !.core = r.core])
          [] opt.o = "WithFatalHook" -> set([l EXCEPT !.onFatal = opt.s])
          [] opt.o = "WithClock" -> set([l EXCEPT !.clock = opt.s])

RECURSIVE applyAll_rightToLeft(_, _, _)
\* a loop that applies the options last to first
applyAll_rightToLeft(m, opts, c) ==
    IF Len(opts) = 0 THEN m
    ELSE applyAll_rightToLeft(apply(m, opts[Len(opts)], c), SubSeq(opts, 1, Len(opts) - 1), c)

RECURSIVE applyAll(_, _, _)
\* for _, opt := range opts { opt.apply(c) }
applyAll(m, opts, c) ==
    IF Len(opts) = 0 THEN m
    ELSE applyAll(apply(m, Head(opts), c), Tail(opts), c)

(***************************************************************************)
(* Derivations.                                                            *)
(***************************************************************************)
\* a WithOptions that hands back its receiver when there is no option
WithOptions_noCloneWhenEmpty(m, log, opts) ==
    IF Len(opts) = 0 THEN [m |-> m, ret |-> log]
    ELSE LET c == clone(m, log)
         IN  [m |-> applyAll(c.m, opts, c.ret), ret |-> c.ret]

\* Logger.WithOptions
WithOptions(m, log, opts) ==
    LET c == clone(m, log)
    IN  [m |-> applyAll(c.m, opts, c.ret), ret |-> c.ret]

\* a Sugar that skips one frame only
sugarSkip_byOne(m, core) ==
    Mem([m.heap EXCEPT ![core].callerSkip = m.heap[core].callerSkip + 1], m.errLog)

\* core.callerSkip += 2 in Sugar
sugarSkip(m, core) ==
    Mem([m.heap EXCEPT ![core].callerSkip = m.heap[core].callerSkip + 2], m.errLog)

\* Logger.Sugar; ret is the Logger the SugaredLogger wraps
Sugar(m, log) ==
    LET core == clone(m, log)
    IN  [m |-> sugarSkip(core.m, core.ret), ret |-> core.ret]

\* the name assignment that joins even onto an empty name
setName_alwaysJoin(m, log, l, s) ==
    Mem([m.heap EXCEPT ![l].name = Join(<<m.heap[l].name, s>>, Sep)], m.errLog)

\* a name assignment made through the receiver
setName_onReceiver(m, log, l, s) ==
    Mem([m.heap EXCEPT ![log].name = IF m.heap[log].name = EmptyStr THEN s
                                     ELSE Join(<<m.heap[l].name, s>>, Sep)],
        m.errLog)

\* the name assignment of Named: l.name = s, or l.name joined with s
setName(m, log, l, s) ==
    Mem([m.heap EXCEPT ![l].name = IF m.heap[log].name = EmptyStr THEN s
                                   ELSE Join(<<m.heap[l].name, s>>, Sep)],
        m.errLog)

\* Logger.Named
Named(m, log, s) ==
    IF s = EmptyStr THEN [m |-> m, ret |-> log]
    ELSE LET l == clone(m, log)
         IN  [m |-> setName(l.m, log, l.ret, s), ret |-> l.ret]

\* l.core = l.core.With(fields) in With
setCore(m, l, fields) ==
    Mem([m.heap EXCEPT ![l].core = CoreWith(m.heap[l].core, fields)], m.errLog)

\* Logger.With
With(m, log, fields) ==
    IF Len(fields) = 0 THEN [m |-> m, ret |-> log]
    ELSE LET l == clone(m, log)
         IN  [m |-> setCore(l.m, l.ret, fields), ret |-> l.ret]

\* NewNop
NewNop(m) == Alloc(m, NopLogger)

\* a New that applies the options to the no-op logger as well
New_optionsOnNop(m, core, options) ==
    LET log == IF core = NilCore THEN NewNop(m) ELSE Alloc(m, NewLogger(core))
    IN  WithOptions(log.m, log.ret, options)

\* New(core, options...)
New(m, core, options) ==
    IF core = NilCore THEN NewNop(m)
    ELSE LET log == Alloc(m, NewLogger(core))
         IN  WithOptions(log.m, log.ret, options)

(***************************************************************************)
(* zapcore.Entry and zapcore.CheckedEntry.  A *CheckedEntry is NilCE or    *)
(* <<struct>>.                                                             *)
(***************************************************************************)
NilCE == << >>

NoCaller == [Defined |-> FALSE, PC |-> 0, File |-> "", Line |-> 0, Function |-> ""]

\* getCheckedEntry(); ce.Entry = ent
getCheckedEntry(ent) ==
    [Entry |-> ent, ErrorOutput |-> NULL, Caller |-> NoCaller, Stack |-> << >>,
     after |-> NULL, cores |-> << >>]

\* core.Check(ent, nil): the core adds itself to a fresh CheckedEntry when it
\* will write the entry, and returns nil otherwise
CoreCheck(core, ent, admits) ==
    IF admits THEN << [getCheckedEntry(ent) EXCEPT !.cores = <<core>>] >> ELSE NilCE

\* CheckedEntry.After(ent, hook)
After(ce, ent, hook) ==
    IF ce = NilCE THEN << [getCheckedEntry(ent) EXCEPT !.after = hook] >>
    ELSE << [ce[1] EXCEPT !.after = hook] >>

\* CheckedEntry.Should(ent, action)
Should(ce, ent, should) == After(ce, ent, should)

(***************************************************************************)
(* The stack/caller capture capability.  stk is the goroutine's call       *)
(* stack as runtime.Callers sees it from inside check: frame 1 is check,   *)
(* frame 2 the Logger method that called it, frame 3 its caller, ...       *)
(***************************************************************************)
stacktraceFirst == "first"
stacktraceFull == "full"

Frame(p, file, line, fn) == [PC |-> p, File |-> file, Line |-> line, Function |-> fn]

\* captureStacktrace(skip, depth): the frames the session will yield
captureStacktrace(stk, skip, depth) ==
    LET rest == IF skip >= Len(stk) THEN << >> ELSE SubSeq(stk, skip + 1, Len(stk))
    IN  IF depth = stacktraceFirst /\ Len(rest) > 1 THEN SubSeq(rest, 1, 1) ELSE rest

\* stackfmt.FormatFrame(frame)
FormatFrame(frame) == << [Function |-> frame.Function, File |-> frame.File, Line |-> frame.Line] >>

RECURSIVE FormatStack(_)
\* stackfmt.FormatStack(stack): the frames the session has not yielded yet
FormatStack(frames) ==
    IF Len(frames) = 0 THEN << >>
    ELSE FormatFrame(Head(frames)) \o FormatStack(Tail(frames))

(***************************************************************************)
(* Logger.check.  env is what the collaborators answer during the call:    *)
(* env.enabled (core.Enabled), env.admits (core.Check returns an entry),   *)
(* env.stk (the call stack).  The result says what check returned and      *)
(* which collaborators it used.                                            *)
(***************************************************************************)
callerSkipOffset == 2

Res(ce, enabledCalls, clockReads, checkCalls, captures, sessionsFreed, buffers, buffersFreed, errs, syncs) ==
    [ce |-> ce, enabledCalls |-> enabledCalls, clockReads |-> clockReads,
     checkCalls |-> checkCalls, captures |-> captures, sessionsFreed |-> sessionsFreed,
     buffers |-> buffers, buffersFreed |-> buffersFreed, errs |-> errs, syncs |-> syncs]

\* a fast rejection that takes DPanicLevel too
fastReject_inclusive(l, lvl, enabled) == lvl <= DPanicLevel /\ ~enabled

\* a fast rejection that stops below ErrorLevel
fastReject_belowError(l, lvl, enabled) == lvl < ErrorLevel /\ ~enabled

\* the fast rejection of disabled levels: lvl < DPanicLevel && !core.Enabled(lvl)
fastReject(l, lvl, enabled) == lvl < DPanicLevel /\ ~enabled

\* a substitution that replaces only the nil hook
fatalHook_nilOnly(onFatal) ==
    IF onFatal = NULL THEN WriteThenFatal ELSE onFatal

\* the hook a Fatal entry gets: onFatal, or WriteThenFatal for nil and WriteThenNoop
fatalHook(onFatal) ==
    IF onFatal = NULL \/ onFatal = WriteThenNoop THEN WriteThenFatal ELSE onFatal

\* terminal behavior that leaves a Fatal entry the core declined as it is
terminal_fatalIfWritten(l, ent, ce) ==
    CASE ent.Level = PanicLevel -> Should(ce, ent, WriteThenPanic)
      [] ent.Level = FatalLevel ->
            IF ce = NilCE THEN ce ELSE After(ce, ent, fatalHook(l.onFatal))
      [] ent.Level = DPanicLevel -> IF l.development THEN Should(ce, ent, WriteThenPanic) ELSE ce
      [] OTHER -> ce

\* terminal behavior that gives a Panic entry the Fatal hook
terminal_panicAsFatal(l, ent, ce) ==
    CASE ent.Level = PanicLevel -> After(ce, ent, fatalHook(l.onFatal))
      [] ent.Level = FatalLevel -> After(ce, ent, fatalHook(l.onFatal))
      [] ent.Level = DPanicLevel -> IF l.development THEN Should(ce, ent, WriteThenPanic) ELSE ce
      [] OTHER -> ce

\* terminal behavior that panics on DPanic whatever the mode
terminal_dpanicAlways(l, ent, ce) ==
    CASE ent.Level = PanicLevel -> Should(ce, ent, WriteThenPanic)
      [] ent.Level = FatalLevel -> After(ce, ent, fatalHook(l.onFatal))
      [] ent.Level = DPanicLevel -> Should(ce, ent, WriteThenPanic)
      [] OTHER -> ce

\* terminal behavior that forces an action only onto entries the core admitted
terminal_onlyIfWritten(l, ent, ce) ==
    IF ce = NilCE THEN ce
    ELSE CASE ent.Level = PanicLevel -> Should(ce, ent, WriteThenPanic)
           [] ent.Level = FatalLevel -> After(ce, ent, fatalHook(l.onFatal))
           [] ent.Level = DPanicLevel ->
                 IF l.development THEN Should(ce, ent, WriteThenPanic) ELSE ce
           [] OTHER -> ce

\* switch ent.Level: set up any required terminal behavior
terminal(l, ent, ce) ==
    CASE ent.Level = PanicLevel -> Should(ce, ent, WriteThenPanic)
      [] ent.Level = FatalLevel -> After(ce, ent, fatalHook(l.onFatal))
      [] ent.Level = DPanicLevel -> IF l.development THEN Should(ce, ent, WriteThenPanic) ELSE ce
      [] OTHER -> ce

\* addStack.Enabled(lvl) for a level used as LevelEnabler
LevelEnabled(threshold, lvl) == lvl >= threshold

\* a zero-frame branch that reports nothing
noFrames_silent(l) == << >>

\* if stack.Count() == 0: the reports written to the error output
noFrames(l) ==
    IF l.addCaller
    THEN << [w |-> l.errorOutput, msg |-> "Logger.check error: failed to get caller"] >>
    ELSE << >>

\* an annotation that captures at the logger's caller skip without the offset
annotate_skipNoOffset(l, ent, ce0, stk) ==
    LET ce == [ce0[1] EXCEPT !.ErrorOutput = l.errorOutput]
        addStack == LevelEnabled(l.addStack, ce.Entry.Level)
        stackDepth == IF addStack THEN stacktraceFull ELSE stacktraceFirst
        skip == l.callerSkip
        stack == captureStacktrace(stk, skip, stackDepth)
        out(c, caps, defers, bufs, errs, syncs) ==
            [ce |-> <<c>>, captures |-> caps, defers |-> defers, buffers |-> bufs,
             errs |-> errs, syncs |-> syncs]
        cap == << [skip |-> skip, depth |-> stackDepth] >>
    IN  IF ~l.addCaller /\ ~addStack
        THEN out(ce, << >>, << >>, 0, << >>, 0)
        ELSE IF Len(stack) = 0
        THEN out(ce, cap, <<"stack.Free">>, 0, noFrames(l), Len(noFrames(l)))
        ELSE LET frame == Head(stack)
                 more == Len(stack) > 1
                 ce1 == IF l.addCaller
                        THEN [ce EXCEPT !.Caller = [Defined |-> frame.PC # 0, PC |-> frame.PC,
                                                    File |-> frame.File, Line |-> frame.Line,
                                                    Function |-> frame.Function]]
                        ELSE ce
             IN  IF addStack
                 THEN out([ce1 EXCEPT !.Stack = FormatFrame(frame) \o
                                        (IF more THEN FormatStack(Tail(stack)) ELSE << >>)],
                          cap, <<"stack.Free", "buffer.Free">>, 1, << >>, 0)
                 ELSE out(ce1, cap, <<"stack.Free">>, 0, << >>, 0)

\* an annotation that frees the session at its end, not by defer: the
\* zero-frame return leaves it acquired
annotate_freeAtEnd(l, ent, ce0, stk) ==
    LET ce == [ce0[1] EXCEPT !.ErrorOutput = l.errorOutput]
        addStack == LevelEnabled(l.addStack, ce.Entry.Level)
        stackDepth == IF addStack THEN stacktraceFull ELSE stacktraceFirst
        skip == l.callerSkip + callerSkipOffset
        stack == captureStacktrace(stk, skip, stackDepth)
        out(c, caps, defers, bufs, errs, syncs) ==
            [ce |-> <<c>>, captures |-> caps, defers |-> defers, buffers |-> bufs,
             errs |-> errs, syncs |-> syncs]
        cap == << [skip |-> skip, depth |-> stackDepth] >>
    IN  IF ~l.addCaller /\ ~addStack
        THEN out(ce, << >>, << >>, 0, << >>, 0)
        ELSE IF Len(stack) = 0
        THEN out(ce, cap, << >>, 0, noFrames(l), Len(noFrames(l)))
        ELSE LET frame == Head(stack)
                 more == Len(stack) > 1
                 ce1 == IF l.addCaller
                        THEN [ce EXCEPT !.Caller = [Defined |-> frame.PC # 0, PC |-> frame.PC,
                                                    File |-> frame.File, Line |-> frame.Line,
                                                    Function |-> frame.Function]]
                        ELSE ce
             IN  IF addStack
                 THEN out([ce1 EXCEPT !.Stack = FormatFrame(frame) \o
                                        (IF more THEN FormatStack(Tail(stack)) ELSE << >>)],
                          cap, <<"stack.Free", "buffer.Free">>, 1, << >>, 0)
                 ELSE out(ce1, cap, <<"stack.Free">>, 0, << >>, 0)

\* the annotation part of check, reached when the core will write the entry:
\* [ce, captures, defers, buffers, errs, syncs]; defers are run by check on return
annotate(l, ent, ce0, stk) ==
    LET ce == [ce0[1] EXCEPT !.ErrorOutput = l.errorOutput]
        addStack == LevelEnabled(l.addStack, ce.Entry.Level)
        stackDepth == IF addStack THEN stacktraceFull ELSE stacktraceFirst
        skip == l.callerSkip + callerSkipOffset
        stack == captureStacktrace(stk, skip, stackDepth)
        out(c, caps, defers, bufs, errs, syncs) ==
            [ce |-> <<c>>, captures |-> caps, defers |-> defers, buffers |-> bufs,
             errs |-> errs, syncs |-> syncs]
        cap == << [skip |-> skip, depth |-> stackDepth] >>
    IN  IF ~l.addCaller /\ ~addStack
        THEN out(ce, << >>, << >>, 0, << >>, 0)
        ELSE IF Len(stack) = 0
        THEN out(ce, cap, <<"stack.Free">>, 0, noFrames(l), Len(noFrames(l)))
        ELSE LET frame == Head(stack)
                 more == Len(stack) > 1
                 ce1 == IF l.addCaller
                        THEN [ce EXCEPT !.Caller = [Defined |-> frame.PC # 0, PC |-> frame.PC,
                                                    File |-> frame.File, Line |-> frame.Line,
                                                    Function |-> frame.Function]]
                        ELSE ce
             IN  IF addStack
                 THEN out([ce1 EXCEPT !.Stack = FormatFrame(frame) \o
                                        (IF more THEN FormatStack(Tail(stack)) ELSE << >>)],
                          cap, <<"stack.Free", "buffer.Free">>, 1, << >>, 0)
                 ELSE out(ce1, cap, <<"stack.Free">>, 0, << >>, 0)

\* the number of deferred calls of one kind that run when check returns
Deferred(defers, what) == Len(SelectSeq(defers, LAMBDA d : d = what))

\* a check that annotates every record it returns
check_annotateForced(l, lvl, msg, env) ==
    IF fastReject(l, lvl, env.enabled)
    THEN Res(NilCE, 1, 0, 0, << >>, 0, 0, 0, << >>, 0)
    ELSE LET enabledCalls == IF lvl < DPanicLevel THEN 1 ELSE 0
             ent == [LoggerName |-> l.name, Time |-> l.clock, Level |-> lvl, Message |-> msg]
             ce0 == CoreCheck(l.core, ent, env.admits)
             willWrite == ce0 # NilCE
             ce == terminal(l, ent, ce0)
         IN  IF ce = NilCE
             THEN Res(ce, enabledCalls, 1, 1, << >>, 0, 0, 0, << >>, 0)
             ELSE LET a == annotate(l, ent, ce, env.stk)
                  IN  Res(a.ce, enabledCalls, 1, 1, a.captures,
                          Deferred(a.defers, "stack.Free"), a.buffers,
                          Deferred(a.defers, "buffer.Free"), a.errs, a.syncs)

\* Logger.check
check(l, lvl, msg, env) ==
    IF fastReject(l, lvl, env.enabled)
    THEN Res(NilCE, 1, 0, 0, << >>, 0, 0, 0, << >>, 0)
    ELSE LET enabledCalls == IF lvl < DPanicLevel THEN 1 ELSE 0
             ent == [LoggerName |-> l.name, Time |-> l.clock, Level |-> lvl, Message |-> msg]
             ce0 == CoreCheck(l.core, ent, env.admits)
             willWrite == ce0 # NilCE
             ce == terminal(l, ent, ce0)
         IN  IF ~willWrite
             THEN Res(ce, enabledCalls, 1, 1, << >>, 0, 0, 0, << >>, 0)
             ELSE LET a == annotate(l, ent, ce, env.stk)
                  IN  Res(a.ce, enabledCalls, 1, 1, a.captures,
                          Deferred(a.defers, "stack.Free"), a.buffers,
                          Deferred(a.defers, "buffer.Free"), a.errs, a.syncs)

(***************************************************************************)
(* CheckedEntry.Write and the terminal actions.                            *)
(***************************************************************************)
\* what running a hook does to the calling goroutine
OnWrite(hook) ==
    CASE hook = NULL -> "return"
      [] hook = WriteThenNoop -> "return"
      [] hook = WriteThenGoexit -> "goexit"
      [] hook = WriteThenPanic -> "panic"
      [] hook = WriteThenFatal -> "exit"
      [] OTHER -> "custom"

\* ce.Write(fields...): every core of the entry writes it, then the hook
\* runs: [writes, events, hook, outcome]
CEWrite(ce, fields) ==
    LET c == ce[1]
        writes == [i \in 1 .. Len(c.cores) |->
                      [core |-> c.cores[i], ent |-> c.Entry,
                       fields |-> CoreFields(c.cores[i]) \o fields]]
    IN  [writes |-> writes,
         events |-> [i \in 1 .. Len(c.cores) |-> "write"] \o
                    (IF c.after # NULL THEN <<"hook">> ELSE << >>),
         hook |-> c.after,
         outcome |-> OnWrite(c.after)]

(***************************************************************************)
(* Inputs of the model.                                                    *)
(***************************************************************************)
Msg == <<"m">>
CallFields == <<"cf">>
Segments == {EmptyStr, <<"a">>, <<"b">>}
FieldLists == {<< >>, <<"f1">>}

FrameCheck == Frame(1, "logger.go", 353, "zap.check")
FrameMethod == Frame(2, "logger.go", 252, "zap.Info")
FrameUser == Frame(3, "main.go", 10, "main.run")
FrameMain == Frame(4, "main.go", 20, "main.main")
FrameNoPC == Frame(0, "", 0, "")

\* the call stacks a log call is made with; the empty one is a runtime that
\* yields no frames
Stacks ==
    {<< >>,
     <<FrameCheck, FrameMethod, FrameNoPC>>,
     <<FrameCheck, FrameMethod, FrameUser>>,
     <<FrameCheck, FrameMethod, FrameUser, FrameMain>>}

Envs == [enabled : BOOLEAN, admits : BOOLEAN, stk : Stacks]

\* the options the model passes to New and WithOptions
Options ==
    {WrapCore, Hooks, Fields("f1"), ErrorOutput("w1"), ErrorOutput(Discard), Development,
     AddCaller, WithCaller(FALSE), AddCallerSkip(1), AddCallerSkip(2),
     AddStacktrace(ErrorLevel), AddStacktrace(DPanicLevel),
     IncreaseLevel(TRUE), IncreaseLevel(FALSE),
     WithFatalHook(NULL), WithFatalHook(WriteThenNoop), OnFatal(WriteThenGoexit),
     OnFatal(WriteThenPanic), WithFatalHook(WriteThenFatal), WithFatalHook(CustomHook),
     WithClock("clock1")}

\* all option lists of length at most n
OptLists(n) == UNION {[1 .. k -> Options] : k \in 0 .. n}

\* the option lists Spec derives with: every field is set by one of them
DeriveOptLists ==
    {<< >>, <<Fields("f1")>>, <<IncreaseLevel(FALSE)>>,
     <<Development, AddCaller>>, <<WithFatalHook(WriteThenNoop), ErrorOutput("w1")>>,
     <<AddStacktrace(ErrorLevel), WithClock("clock1")>>,
     <<AddCallerSkip(1), AddCallerSkip(2)>>}

(***************************************************************************)
(* State of the sequential specifications.                                 *)
(***************************************************************************)
NoRes == Res(NilCE, 0, 0, 0, << >>, 0, 0, 0, << >>, 0)
NoWrite == [writes |-> << >>, events |-> << >>, hook |-> NULL, outcome |-> "return"]
NoEnv == [enabled |-> FALSE, admits |-> FALSE, stk |-> << >>]
NoObs ==
    [op |-> "none", log |-> 0, lvl |-> 0, env |-> NoEnv, res |-> NoRes,
     written |-> FALSE, w |-> NoWrite]

EmptyMem == Mem(<< >>, << >>)

\* a call of a derivation, and the locals of a goroutine running one
Call(op, seg, fields, opts) == [op |-> op, seg |-> seg, fields |-> fields, opts |-> opts]
NoLoc ==
    [call |-> Call("none", EmptyStr, << >>, << >>), core |-> NilCore, log |-> 0, l |-> 0,
     i |-> 0, result |-> 0]

\* the state after a constructor returned r
Constructed(r) ==
    /\ heap = r.m.heap
    /\ errLog = r.m.errLog
    /\ ret = r.ret
    /\ issued = (r.ret :> r.m.heap[r.ret])
    /\ lineage = (r.ret :> [parent |-> 0, op |-> "New", segs |-> << >>])
    /\ obs = NoObs
    /\ pc = << >>
    /\ loc = << >>

\* Spec starts from New(core) or New(nil)
Init == \E core \in {BaseCore, NilCore} : Constructed(New(EmptyMem, core, << >>))

\* SpecCheck starts from New(core, options...) or New(nil, options...)
InitCheck ==
    \E core \in {BaseCore, NilCore}, opts \in OptLists(MaxOpts) :
        Constructed(New(EmptyMem, core, opts))

\* the call c of a derivation on log returned r
Derived(log, c, r) ==
    /\ r.ret \notin DOMAIN issued => Cardinality(DOMAIN issued) < MaxLoggers
    /\ heap' = r.m.heap
    /\ errLog' = r.m.errLog
    /\ ret' = r.ret
    /\ issued' = IF r.ret \in DOMAIN issued THEN issued
                 ELSE issued @@ (r.ret :> r.m.heap[r.ret])
    /\ lineage' = IF r.ret \in DOMAIN lineage THEN lineage
                  ELSE lineage @@ (r.ret :> [parent |-> log, op |-> c.op,
                                             segs |-> lineage[log].segs \o
                                                      (IF c.op = "Named" THEN <<c.seg>> ELSE << >>)])
    /\ loc' = << [NoLoc EXCEPT !.call = c, !.log = log, !.result = r.ret] >>
    /\ UNCHANGED <<obs, pc>>

DoNamed(log) ==
    \E s \in Segments :
        Derived(log, Call("Named", s, << >>, << >>), Named(Mem(heap, << >>), log, s))

DoWith(log) ==
    \E fs \in FieldLists :
        Derived(log, Call("With", EmptyStr, fs, << >>), With(Mem(heap, << >>), log, fs))

DoSugar(log) ==
    Derived(log, Call("Sugar", EmptyStr, << >>, << >>), Sugar(Mem(heap, << >>), log))

DoWithOptions(log) ==
    \E opts \in DeriveOptLists :
        Derived(log, Call("WithOptions", EmptyStr, << >>, opts),
                WithOptions(Mem(heap, << >>), log, opts))

(***************************************************************************)
(* The log calls.                                                          *)
(***************************************************************************)
\* a log call that drops the entry check returned
Log_noWrite(log, op, lvl) ==
    /\ obs = NoObs
    /\ \E env \in Envs :
          LET r == check(heap[log], lvl, Msg, env)
          IN  /\ obs' = [op |-> op, log |-> log, lvl |-> lvl, env |-> env, res |-> r,
                         written |-> FALSE, w |-> NoWrite]
              /\ errLog' = r.errs
    /\ UNCHANGED <<heap, ret, issued, lineage, pc, loc>>

\* if ce := log.check(lvl, msg); ce != nil { ce.Write(fields...) }
Log(log, op, lvl) ==
    /\ obs = NoObs
    /\ \E env \in Envs :
          LET r == check(heap[log], lvl, Msg, env)
          IN  /\ obs' = [op |-> op, log |-> log, lvl |-> lvl, env |-> env, res |-> r,
                         written |-> r.ce # NilCE,
                         w |-> IF r.ce # NilCE THEN CEWrite(r.ce, CallFields) ELSE NoWrite]
              /\ errLog' = r.errs
    /\ UNCHANGED <<heap, ret, issued, lineage, pc, loc>>

Debug(log) == Log(log, "Debug", DebugLevel)
Info(log) == Log(log, "Info", InfoLevel)
Warn(log) == Log(log, "Warn", WarnLevel)
Error(log) == Log(log, "Error", ErrorLevel)
DPanic(log) == Log(log, "DPanic", DPanicLevel)
Panic(log) == Log(log, "Panic", PanicLevel)
Fatal(log) == Log(log, "Fatal", FatalLevel)

\* the levels Check is called with: those of the level methods and one above
CheckLevels == Levels \cup {FatalLevel + 1}

\* Logger.Check: the entry is handed to the caller unwritten
Check(log) ==
    /\ obs = NoObs
    /\ \E lvl \in CheckLevels, env \in Envs :
          LET r == check(heap[log], lvl, Msg, env)
          IN  /\ obs' = [op |-> "Check", log |-> log, lvl |-> lvl, env |-> env, res |-> r,
                         written |-> FALSE, w |-> NoWrite]
              /\ errLog' = r.errs
    /\ UNCHANGED <<heap, ret, issued, lineage, pc, loc>>

\* the caller of Check writes the entry it got
WriteChecked ==
    /\ obs.op = "Check"
    /\ ~obs.written
    /\ obs.res.ce # NilCE
    /\ obs' = [obs EXCEPT !.written = TRUE, !.w = CEWrite(obs.res.ce, CallFields)]
    /\ UNCHANGED <<heap, errLog, ret, issued, lineage, pc, loc>>

\* the program goes on to its next operation, unless the process has exited
Continue ==
    /\ obs # NoObs
    /\ obs.w.outcome # "exit"
    /\ obs' = NoObs
    /\ UNCHANGED <<heap, errLog, ret, issued, lineage, pc, loc>>

Next ==
    \E log \in DOMAIN issued :
        \/ DoNamed(log)
        \/ DoWith(log)
        \/ DoSugar(log)
        \/ DoWithOptions(log)

Spec == Init /\ [][Next]_vars

NextCheck ==
    \E log \in DOMAIN issued :
        \/ Debug(log)
        \/ Info(log)
        \/ Warn(log)
        \/ Error(log)
        \/ DPanic(log)
        \/ Panic(log)
        \/ Fatal(log)
        \/ Check(log)
        \/ WriteChecked
        \/ Continue

SpecCheck == InitCheck /\ [][NextCheck]_vars

(***************************************************************************)
(* SpecOpts: one call of WithOptions or New with any option list of at     *)
(* most MaxOpts options.                                                   *)
(***************************************************************************)
\* the options the receivers of SpecOpts were built with
ReceiverOpts ==
    {<< >>,
     <<AddCallerSkip(1), AddCaller, WithClock("clock0")>>,
     <<ErrorOutput("w0"), OnFatal(WriteThenGoexit), Development, Fields("f0")>>}

\* the names the receivers of SpecOpts were given: none, or one segment
ReceiverNames == {EmptyStr, <<"r">>}

InitOpts ==
    \E ropts \in ReceiverOpts, s \in ReceiverNames :
        LET n == New(EmptyMem, BaseCore, ropts)
        IN  Constructed(Named(n.m, n.ret, s))

\* the caller holds what the call c returned
Returned(c, core, log, r) ==
    /\ heap' = r.m.heap
    /\ errLog' = r.m.errLog
    /\ ret' = r.ret
    /\ issued' = issued @@ (r.ret :> r.m.heap[r.ret])
    /\ lineage' = lineage @@ (r.ret :> [parent |-> log, op |-> c.op, segs |-> << >>])
    /\ loc' = << [NoLoc EXCEPT !.call = c, !.core = core, !.log = log, !.result = r.ret] >>
    /\ UNCHANGED <<obs, pc>>

\* log.WithOptions(opts...)
CallWithOptions(log) ==
    /\ loc = << >>
    /\ \E opts \in OptLists(MaxOpts) :
          Returned(Call("WithOptions", EmptyStr, << >>, opts), NilCore, log,
                   WithOptions(Mem(heap, << >>), log, opts))

\* New(core, opts...)
CallNew ==
    /\ loc = << >>
    /\ \E core \in {BaseCore, NilCore}, opts \in OptLists(MaxOpts) :
          Returned(Call("New", EmptyStr, << >>, opts), core, 0,
                   New(Mem(heap, << >>), core, opts))

\* log.Named(s)
CallNamed(log) ==
    /\ loc = << >>
    /\ \E s \in Segments :
          Returned(Call("Named", s, << >>, << >>), NilCore, log, Named(Mem(heap, << >>), log, s))

\* log.With(fields...)
CallWith(log) ==
    /\ loc = << >>
    /\ \E fs \in FieldLists :
          Returned(Call("With", EmptyStr, fs, << >>), NilCore, log, With(Mem(heap, << >>), log, fs))

\* log.Sugar()
CallSugar(log) ==
    /\ loc = << >>
    /\ Returned(Call("Sugar", EmptyStr, << >>, << >>), NilCore, log, Sugar(Mem(heap, << >>), log))

NextOpts ==
    \/ CallNew
    \/ \E log \in DOMAIN issued :
          \/ CallWithOptions(log)
          \/ CallNamed(log)
          \/ CallWith(log)
          \/ CallSugar(log)

SpecOpts == InitOpts /\ [][NextOpts]_vars

(***************************************************************************)
(* SpecConc: NumWorkers goroutines each derive one child from the shared   *)
(* logger.  A derivation is a sequence of steps: the clone, then each      *)
(* assignment to the copy, then the return.                                *)
(***************************************************************************)
Workers == 1 .. NumWorkers

\* the derivations the goroutines choose from
ConcCalls ==
    {Call("Named", <<"a">>, << >>, << >>), Call("Named", EmptyStr, << >>, << >>),
     Call("With", EmptyStr, <<"f1">>, << >>), Call("With", EmptyStr, << >>, << >>),
     Call("Sugar", EmptyStr, << >>, << >>),
     Call("WithOptions", EmptyStr, << >>, << >>),
     Call("WithOptions", EmptyStr, << >>, <<Fields("f2")>>),
     Call("WithOptions", EmptyStr, << >>, <<AddCallerSkip(1), Development>>)}

\* the shared logger is New(core, options...), then possibly Named
InitConc ==
    /\ \E opts \in {<< >>, <<AddCallerSkip(1), WithFatalHook(WriteThenPanic)>>}, s \in {EmptyStr, <<"r">>} :
          LET n == New(EmptyMem, BaseCore, opts)
              r == Named(n.m, n.ret, s)
          IN  /\ heap = r.m.heap
              /\ errLog = r.m.errLog
              /\ ret = r.ret
              /\ issued = (r.ret :> r.m.heap[r.ret])
              /\ lineage = (r.ret :> [parent |-> 0, op |-> "New", segs |-> <<s>>])
    /\ obs = NoObs
    /\ pc = [w \in Workers |-> "idle"]
    /\ loc = [w \in Workers |-> NoLoc]

\* goroutine w calls a derivation on the shared logger
Begin(w) ==
    /\ pc[w] = "idle"
    /\ \E c \in ConcCalls :
          /\ loc' = [loc EXCEPT ![w] = [NoLoc EXCEPT !.call = c, !.log = ret]]
          /\ pc' = [pc EXCEPT ![w] = "entry"]
    /\ UNCHANGED <<heap, errLog, ret, issued, lineage, obs>>

\* the early return of Named and With, or the clone
Entry(w) ==
    /\ pc[w] = "entry"
    /\ LET c == loc[w].call
           early == \/ c.op = "Named" /\ c.seg = EmptyStr
                    \/ c.op = "With" /\ Len(c.fields) = 0
       IN  IF early
           THEN /\ loc' = [loc EXCEPT ![w].result = loc[w].log]
                /\ pc' = [pc EXCEPT ![w] = "done"]
                /\ UNCHANGED <<heap, errLog>>
           ELSE LET r == clone(Mem(heap, errLog), loc[w].log)
                IN  /\ heap' = r.m.heap
                    /\ errLog' = r.m.errLog
                    /\ loc' = [loc EXCEPT ![w].l = r.ret, ![w].i = 1]
                    /\ pc' = [pc EXCEPT ![w] = "assign"]
    /\ UNCHANGED <<ret, issued, lineage, obs>>

\* one assignment to the copy: the name, the core, the caller skip, or the
\* next option of WithOptions
Assign(w) ==
    /\ pc[w] = "assign"
    /\ LET c == loc[w].call
           m == Mem(heap, errLog)
           stay == c.op = "WithOptions" /\ loc[w].i <= Len(c.opts)
           m2 == CASE c.op = "Named" -> setName(m, loc[w].log, loc[w].l, c.seg)
                   [] c.op = "With" -> setCore(m, loc[w].l, c.fields)
                   [] c.op = "Sugar" -> sugarSkip(m, loc[w].l)
                   [] c.op = "WithOptions" ->
                        IF stay THEN apply(m, c.opts[loc[w].i], loc[w].l) ELSE m
       IN  /\ heap' = m2.heap
           /\ errLog' = m2.errLog
           /\ IF stay /\ loc[w].i < Len(c.opts)
              THEN /\ loc' = [loc EXCEPT ![w].i = loc[w].i + 1]
                   /\ UNCHANGED pc
              ELSE /\ loc' = [loc EXCEPT ![w].result = loc[w].l]
                   /\ pc' = [pc EXCEPT ![w] = "done"]
    /\ UNCHANGED <<ret, issued, lineage, obs>>

NextConc == \E w \in Workers : Begin(w) \/ Entry(w) \/ Assign(w)

SpecConc == InitConc /\ [][NextConc]_vars

(***************************************************************************)
(* Properties of the log calls, checked under SpecCheck.                   *)
(***************************************************************************)

\* C1: whatever the snapshot and whatever the core answers, a Fatal-level
\* call gets a non-nil CheckedEntry from check; Logger.Fatal writes it; and
\* once it is written a hook has run after the core writes and control has
\* not returned to the caller.
C1_FatalAlwaysTerminates ==
    (obs.op \in {"Fatal", "Check"} /\ obs.lvl = FatalLevel) =>
        /\ obs.res.ce # NilCE
        /\ obs.op = "Fatal" => obs.written
        /\ obs.written =>
              /\ obs.w.events # << >>
              /\ obs.w.events[Len(obs.w.events)] = "hook"
              /\ obs.w.hook \notin {NULL, WriteThenNoop}
              /\ obs.w.outcome # "return"

C1_Witness ==
    /\ obs.op = "Fatal"
    /\ ~obs.env.admits
    /\ obs.written
    /\ obs.w.writes = << >>
    /\ obs.w.outcome = "exit"

\* C2: the hook attached to a Fatal-level CheckedEntry is WriteThenFatal when
\* the snapshot's onFatal is nil or WriteThenNoop, and the snapshot's onFatal
\* itself otherwise; it is never WriteThenNoop.
C2_FatalHookNeverNoop ==
    (obs.op \in {"Fatal", "Check"} /\ obs.lvl = FatalLevel) =>
        LET onFatal == heap[obs.log].onFatal
        IN  /\ obs.res.ce # NilCE
            /\ obs.res.ce[1].after # WriteThenNoop
            /\ onFatal \in {NULL, WriteThenNoop} => obs.res.ce[1].after = WriteThenFatal
            /\ onFatal \notin {NULL, WriteThenNoop} => obs.res.ce[1].after = onFatal

C2_Witness ==
    /\ obs.op = "Fatal"
    /\ heap[obs.log].onFatal = WriteThenNoop
    /\ obs.res.ce # NilCE
    /\ obs.res.ce[1].after = WriteThenFatal

\* C3: a Panic-level call always gets a CheckedEntry whose hook is
\* WriteThenPanic, whether or not the core enables the level or admits the
\* entry; Logger.Panic writes it and panics.
C3_PanicAlwaysPanics ==
    (obs.op \in {"Panic", "Check"} /\ obs.lvl = PanicLevel) =>
        /\ obs.res.ce # NilCE
        /\ obs.res.ce[1].after = WriteThenPanic
        /\ obs.res.ce[1].Entry.Level = PanicLevel
        /\ ~obs.env.admits => obs.res.ce[1].cores = << >>
        /\ obs.op = "Panic" => obs.written /\ obs.w.outcome = "panic"

C3_Witness ==
    /\ obs.op = "Panic"
    /\ ~obs.env.enabled
    /\ ~obs.env.admits
    /\ obs.w.outcome = "panic"

\* C4: at DPanicLevel, a snapshot in development mode always gets a
\* CheckedEntry whose hook is WriteThenPanic; a snapshot not in development
\* mode gets what the core's Check returned: nil when the core declines, and
\* otherwise the core's entry with no hook forced onto it.
C4_DPanicByMode ==
    (obs.op \in {"DPanic", "Check"} /\ obs.lvl = DPanicLevel) =>
        LET l == heap[obs.log]
            ent == [LoggerName |-> l.name, Time |-> l.clock, Level |-> DPanicLevel,
                    Message |-> Msg]
            fromCore == CoreCheck(l.core, ent, obs.env.admits)
        IN  /\ l.development =>
                  /\ obs.res.ce # NilCE
                  /\ obs.res.ce[1].after = WriteThenPanic
            /\ ~l.development =>
                  /\ (obs.res.ce = NilCE) = (fromCore = NilCE)
                  /\ obs.res.ce # NilCE =>
                        /\ obs.res.ce[1].after = fromCore[1].after
                        /\ obs.res.ce[1].cores = fromCore[1].cores
                        /\ obs.res.ce[1].Entry = fromCore[1].Entry
                  /\ obs.written => obs.w.outcome = "return"

C4_Witness ==
    /\ obs.op = "DPanic"
    /\ heap[obs.log].development
    /\ ~obs.env.admits
    /\ obs.res.ce # NilCE
    /\ obs.w.outcome = "panic"

\* C5: below DPanicLevel, when the core's Enabled reports false, check
\* returns nil having done nothing else: no clock read, no core.Check, no
\* capture session, no buffer, nothing written to the error output or the core.
C5_DisabledDoesNothing ==
    (obs.op # "none" /\ obs.lvl < DPanicLevel /\ ~obs.env.enabled) =>
        /\ obs.res.ce = NilCE
        /\ obs.res.clockReads = 0
        /\ obs.res.checkCalls = 0
        /\ obs.res.captures = << >>
        /\ obs.res.buffers = 0
        /\ obs.res.errs = << >>
        /\ obs.res.syncs = 0
        /\ errLog = << >>
        /\ ~obs.written
        /\ obs.w.writes = << >>

C5_Witness ==
    /\ obs.op = "Error"
    /\ ~obs.env.enabled
    /\ obs.env.admits
    /\ heap[obs.log].addCaller
    /\ obs.res.ce = NilCE
    /\ obs.res.enabledCalls = 1

\* C9: when the core admits the entry, caller annotation is on and the
\* capture yields no frame, check writes exactly one report, to the
\* snapshot's error output, and still returns the entry, with the caller
\* undefined and no stack.
C9_NoFramesOneReport ==
    LET l == heap[obs.log]
    IN  (/\ obs.op # "none"
         /\ obs.lvl >= DPanicLevel \/ obs.env.enabled
         /\ obs.env.admits
         /\ l.addCaller
         /\ Len(obs.env.stk) <= l.callerSkip + callerSkipOffset) =>
            /\ obs.res.errs = << [w |-> l.errorOutput,
                                  msg |-> "Logger.check error: failed to get caller"] >>
            /\ errLog = obs.res.errs
            /\ obs.res.ce # NilCE
            /\ obs.res.ce[1].Caller = NoCaller
            /\ ~obs.res.ce[1].Caller.Defined
            /\ obs.res.ce[1].Stack = << >>
            /\ obs.res.ce[1].cores = <<l.core>>

C9_Witness ==
    /\ obs.op = "Info"
    /\ obs.env.admits
    /\ heap[obs.log].addCaller
    /\ obs.env.stk # << >>
    /\ Len(obs.res.errs) = 1
    /\ obs.written
    /\ Len(obs.w.writes) = 1

\* C10: for Panic, Fatal, and DPanic in development mode, when the core
\* declines the entry, check still returns a CheckedEntry, and writing it
\* runs its hook while no core writes anything.
C10_DeclinedTerminalRoundTrip ==
    LET l == heap[obs.log]
    IN  (/\ obs.op # "none"
         /\ obs.lvl \in {PanicLevel, FatalLevel} \/ (obs.lvl = DPanicLevel /\ l.development)
         /\ ~obs.env.admits) =>
            /\ obs.res.ce # NilCE
            /\ obs.res.ce[1].after \notin {NULL, WriteThenNoop}
            /\ obs.written =>
                  /\ obs.w.writes = << >>
                  /\ obs.w.events = <<"hook">>
                  /\ obs.w.hook = obs.res.ce[1].after
                  /\ obs.w.outcome # "return"

C10_Witness ==
    /\ obs.op = "Check"
    /\ obs.lvl = DPanicLevel
    /\ heap[obs.log].development
    /\ ~obs.env.admits
    /\ obs.written
    /\ obs.w.writes = << >>
    /\ obs.w.outcome = "panic"

\* C11: a level-specific log call that gets a CheckedEntry writes it, once:
\* the core that admitted the entry writes it exactly once, with the core's
\* accumulated fields and the call's fields, and the hook, if any, runs
\* after that write and as the last thing; no hook runs before a write.
C11_WriteThenAction ==
    (obs.op \in {"Debug", "Info", "Warn", "Error", "DPanic", "Panic", "Fatal"}
       /\ obs.res.ce # NilCE) =>
        LET ev == obs.w.events
            n == Len(obs.res.ce[1].cores)
        IN  /\ obs.written
            /\ Len(obs.w.writes) = n
            /\ n = (IF obs.env.admits THEN 1 ELSE 0)
            /\ \A i \in 1 .. Len(ev) : (ev[i] = "write") = (i <= n)
            /\ Len(ev) = n + (IF obs.res.ce[1].after # NULL THEN 1 ELSE 0)
            /\ \A i, j \in 1 .. Len(ev) : (ev[i] = "hook" /\ ev[j] = "write") => j < i
            /\ obs.env.admits =>
                  obs.w.writes[1] = [core |-> heap[obs.log].core, ent |-> obs.res.ce[1].Entry,
                                     fields |-> CoreFields(heap[obs.log].core) \o CallFields]
            /\ obs.w.hook = obs.res.ce[1].after

C11_Witness ==
    /\ obs.op = "Fatal"
    /\ obs.env.admits
    /\ obs.written
    /\ obs.w.events = <<"write", "hook">>
    /\ obs.w.outcome = "exit"

\* C16: when the core declines the entry and check returns a record only to
\* carry a terminal action (Panic, Fatal, DPanic in development), the record
\* is the bare entry with that action: no error output attached, no caller,
\* no stack, no capture session and no buffer acquired, whatever addCaller
\* and addStack say.
C16_ForcedRecordAsIs ==
    (obs.op # "none" /\ ~obs.env.admits /\ obs.res.ce # NilCE) =>
        LET r == obs.res
            c == r.ce[1]
        IN  /\ c.ErrorOutput = NULL
            /\ c.Caller = NoCaller
            /\ c.Stack = << >>
            /\ c.cores = << >>
            /\ c.after # NULL
            /\ r.captures = << >>
            /\ r.sessionsFreed = 0
            /\ r.buffers = 0
            /\ r.errs = << >> /\ r.syncs = 0
            /\ errLog = << >>

C16_Witness ==
    /\ obs.op = "Fatal"
    /\ ~obs.env.admits
    /\ obs.env.stk # << >>
    /\ heap[obs.log].addCaller
    /\ heap[obs.log].addStack <= FatalLevel
    /\ heap[obs.log].errorOutput = Stderr
    /\ obs.res.ce # NilCE
    /\ obs.res.ce[1].ErrorOutput = NULL
    /\ obs.res.captures = << >>

\* C17: for an entry the core admits, one capture session is acquired iff
\* addCaller is set or addStack is enabled for the level, at skip
\* callerSkip + 2, of full depth iff addStack is enabled and of the first
\* frame otherwise; the caller is set only with addCaller, from the first
\* frame, Defined iff its PC is not 0; the stack is set only when addStack
\* is enabled, from the frames at that depth.
C17_CaptureOnceAtSkip ==
    (obs.op # "none" /\ obs.res.checkCalls = 1 /\ obs.env.admits) =>
        LET l == heap[obs.log]
            r == obs.res
            c == r.ce[1]
            addSt == obs.lvl >= l.addStack
            skip == l.callerSkip + 2
            stk == obs.env.stk
        IN  /\ r.ce # NilCE
            /\ r.captures = IF l.addCaller \/ addSt
                            THEN << [skip |-> skip,
                                     depth |-> IF addSt THEN stacktraceFull
                                               ELSE stacktraceFirst] >>
                            ELSE << >>
            /\ c.Caller # NoCaller =>
                  /\ l.addCaller
                  /\ Len(stk) > skip
                  /\ c.Caller.Defined = (stk[skip + 1].PC # 0)
                  /\ c.Caller.PC = stk[skip + 1].PC
                  /\ c.Caller.Function = stk[skip + 1].Function
            /\ (l.addCaller /\ Len(stk) > skip /\ stk[skip + 1].PC # 0) => c.Caller.Defined
            /\ ~l.addCaller => c.Caller = NoCaller
            /\ c.Stack # << >> => addSt
            /\ (addSt /\ Len(stk) > skip) =>
                  c.Stack = [i \in 1 .. Len(stk) - skip |->
                                [Function |-> stk[skip + i].Function,
                                 File |-> stk[skip + i].File, Line |-> stk[skip + i].Line]]

C17_Witness ==
    /\ obs.op = "Error"
    /\ obs.env.admits
    /\ heap[obs.log].addCaller
    /\ heap[obs.log].callerSkip = 1
    /\ heap[obs.log].addStack > ErrorLevel
    /\ obs.env.stk = <<FrameCheck, FrameMethod, FrameUser, FrameMain>>
    /\ obs.res.captures = << [skip |-> 3, depth |-> stacktraceFirst] >>
    /\ obs.res.ce[1].Caller.Function = "main.main"
    /\ obs.res.ce[1].Stack = << >>

\* C18: when check returns, every capture session and every buffer it
\* acquired has been released exactly once, on each of its paths (no frames
\* with or without addCaller, caller only, stack with or without further
\* frames); so nothing is outstanding after any log call.
C18_SessionsReleased ==
    obs.op # "none" =>
        /\ obs.res.sessionsFreed = Len(obs.res.captures)
        /\ obs.res.buffersFreed = obs.res.buffers
        /\ Len(obs.res.captures) <= 1
        /\ obs.res.buffers <= Len(obs.res.captures)

C18_Witness ==
    /\ obs.op # "none"
    /\ obs.env.admits
    /\ ~heap[obs.log].addCaller
    /\ Len(obs.res.captures) = 1
    /\ obs.res.ce[1].Stack = << >>
    /\ obs.res.errs = << >>
    /\ obs.res.sessionsFreed = 1
    /\ obs.res.buffers = 0

\* C19: check returns a record exactly when the level is Panic or Fatal, or
\* it is DPanic and the logger is in development or the core admits the
\* entry, or it is another level from DPanic up and the core admits it, or
\* it is below DPanic and the core is enabled for it and admits it.
C19_RecordIff ==
    obs.op # "none" =>
        LET lvl == obs.lvl
            admits == obs.env.admits
        IN  (obs.res.ce # NilCE) =
               \/ lvl \in {PanicLevel, FatalLevel}
               \/ lvl = DPanicLevel /\ (heap[obs.log].development \/ admits)
               \/ lvl >= DPanicLevel /\ lvl \notin {DPanicLevel, PanicLevel, FatalLevel} /\ admits
               \/ lvl < DPanicLevel /\ obs.env.enabled /\ admits

C19_Witness ==
    /\ obs.op = "DPanic"
    /\ ~obs.env.enabled
    /\ ~obs.env.admits
    /\ heap[obs.log].development
    /\ obs.res.ce # NilCE
    /\ obs.res.enabledCalls = 0

(***************************************************************************)
(* Properties of the derivations, checked under Spec.                      *)
(***************************************************************************)

\* C6: no snapshot that was handed out is changed by later Named, With,
\* WithOptions or Sugar calls on it or on its descendants: every field is
\* what it was when the snapshot was issued, and an entry logged through it
\* carries the fields of the core it was issued with and no others.
C6_SnapshotsNeverMutated ==
    \A p \in DOMAIN issued :
        /\ heap[p] = issued[p]
        /\ heap[p].core = issued[p].core
        /\ LET r == check(heap[p], InfoLevel, Msg,
                          [enabled |-> TRUE, admits |-> TRUE, stk |-> << >>])
           IN  /\ r.ce # NilCE
               /\ CEWrite(r.ce, CallFields).writes =
                     << [core |-> issued[p].core, ent |-> r.ce[1].Entry,
                         fields |-> CoreFields(issued[p].core) \o CallFields] >>

C6_Witness ==
    \E p, q \in DOMAIN issued :
        /\ lineage[p].parent # 0
        /\ lineage[q].parent = p
        /\ lineage[p].op = "With"
        /\ heap[p].core # heap[lineage[p].parent].core
        /\ heap[q] # heap[p]
        /\ heap[lineage[p].parent] = issued[lineage[p].parent]

\* C7: a snapshot's name is the non-empty segments given to Named along its
\* derivation, in call order, joined by "."; it has no leading, trailing or
\* doubled separator; and Named("") returns its receiver.
C7_NamedJoinsWithPeriod ==
    /\ \A p \in DOMAIN issued :
          LET name == heap[p].name
              segs == SelectSeq(lineage[p].segs, LAMBDA x : x # EmptyStr)
          IN  /\ name = Join(segs, Sep)
              /\ name # EmptyStr => name[1] # "." /\ name[Len(name)] # "."
              /\ \A i \in 1 .. Len(name) - 1 : ~(name[i] = "." /\ name[i + 1] = ".")
    /\ (loc # << >> /\ loc[1].call.op = "Named" /\ loc[1].call.seg = EmptyStr) =>
          /\ ret = loc[1].log
          /\ heap[ret] = issued[ret]

C7_Witness ==
    \E p \in DOMAIN issued :
        /\ heap[p].name = <<"a", ".", "b">>
        /\ lineage[p].segs = << <<"a">>, <<"b">> >>

\* C14: the logger of a sugared view has the receiver's caller skip plus 2
\* and the receiver's value in every other field; the receiver keeps its
\* caller skip, however many sugared views were derived from it.
C14_SugarSkipsTwo ==
    /\ \A p \in DOMAIN issued :
          lineage[p].op = "Sugar" =>
             LET recv == lineage[p].parent
             IN  /\ p # recv
                 /\ issued[p] = [issued[recv] EXCEPT !.callerSkip = issued[recv].callerSkip + 2]
                 /\ heap[p] = issued[p]
                 /\ heap[recv].callerSkip = issued[recv].callerSkip
    /\ (loc # << >> /\ loc[1].call.op = "Sugar") =>
          /\ ret # loc[1].log
          /\ lineage[ret] = [parent |-> loc[1].log, op |-> "Sugar",
                             segs |-> lineage[loc[1].log].segs]

C14_Witness ==
    \E p, q \in DOMAIN issued :
        /\ p # q
        /\ lineage[p].op = "Sugar" /\ lineage[q].op = "Sugar"
        /\ lineage[p].parent = lineage[q].parent
        /\ heap[lineage[p].parent].callerSkip = 0
        /\ heap[p].callerSkip = 2 /\ heap[q].callerSkip = 2
        /\ ret = q
        /\ loc # << >> /\ loc[1].call.op = "Sugar"

\* the fields a derivation may alter on its copy
Altered(c) ==
    CASE c.op = "Named" -> {"name"}
      [] c.op = "With" -> {"core"}
      [] c.op = "Sugar" -> {"callerSkip"}
      [] c.op = "WithOptions" -> {"core", "development", "addCaller", "onFatal",
                                  "errorOutput", "addStack", "callerSkip", "clock"}

\* Named("") and With() with no field
EmptyArgument(c) ==
    \/ c.op = "Named" /\ c.seg = EmptyStr
    \/ c.op = "With" /\ c.fields = << >>

\* C15 as stated: every derivation, also with an empty segment, field list
\* or option list, returns a snapshot distinct from its receiver that equals
\* the receiver outside the fields the derivation alters.
C15_Original ==
    loc # << >> =>
        /\ ret # loc[1].log
        /\ \A f \in DOMAIN heap[ret] \ Altered(loc[1].call) :
              heap[ret][f] = heap[loc[1].log][f]

\* C15 (amended): a derivation returns a newly allocated snapshot, distinct
\* from its receiver and from every snapshot there was, equal to the receiver
\* outside the fields the derivation alters, and leaves every earlier
\* snapshot as it was; except that Named with an empty segment and With with
\* no field return the receiver itself and allocate nothing.  WithOptions
\* with no option and Sugar do return a new copy.
C15_NewSnapshotUnlessEmpty ==
    [][LET c == loc'[1].call
           log == loc'[1].log
       IN  /\ log \in DOMAIN heap
           /\ \A p \in DOMAIN heap : heap'[p] = heap[p]
           /\ IF EmptyArgument(c)
              THEN ret' = log /\ heap' = heap
              ELSE /\ ret' \notin DOMAIN heap
                   /\ ret' \in DOMAIN heap'
                   /\ ret' # log
                   /\ \A f \in DOMAIN heap'[ret'] \ Altered(c) :
                         heap'[ret'][f] = heap[log][f]]_vars

C15_Witness ==
    /\ loc # << >>
    /\ loc[1].call.op = "WithOptions"
    /\ loc[1].call.opts = << >>
    /\ ret # loc[1].log
    /\ heap[ret] = heap[loc[1].log]
    /\ lineage[ret].parent = loc[1].log

(***************************************************************************)
(* Properties of option application, checked under SpecOpts.               *)
(***************************************************************************)

\* the last option of opts made by constructor o: << >> or <<option>>
LastOpt(opts, o) ==
    LET S == {i \in DOMAIN opts : opts[i].o = o}
    IN  IF S = {} THEN << >> ELSE << opts[CHOOSE i \in S : \A j \in S : j <= i] >>

RECURSIVE SkipSum(_)
\* the sum of the skips of the AddCallerSkip options of opts
SkipSum(opts) ==
    IF Len(opts) = 0 THEN 0
    ELSE (IF Head(opts).o = "AddCallerSkip" THEN Head(opts).n ELSE 0) + SkipSum(Tail(opts))

\* the core that wraps core once per core option of opts, in their order;
\* an IncreaseLevel that cannot be built adds nothing
WrappedCore(core, opts) ==
    LET cs == SelectSeq(opts, LAMBDA o : o.o \in {"WrapCore", "Hooks", "Fields"}
                                          \/ (o.o = "IncreaseLevel" /\ o.b))
    IN  core \o [i \in 1 .. Len(cs) |->
                   CASE cs[i].o = "WrapCore" -> [k |-> "Wrap", a |-> << >>]
                     [] cs[i].o = "Hooks" -> [k |-> "Hooks", a |-> << >>]
                     [] cs[i].o = "Fields" -> [k |-> "With", a |-> <<cs[i].s>>]
                     [] cs[i].o = "IncreaseLevel" -> [k |-> "Incr", a |-> << >>]]

\* the struct a copy of recv becomes under opts: each set field has the value
\* of the last option that sets it, the caller skips add up
Configured(recv, opts) ==
    [core |-> WrappedCore(recv.core, opts),
     development |-> recv.development \/ LastOpt(opts, "Development") # << >>,
     addCaller |-> IF LastOpt(opts, "WithCaller") = << >> THEN recv.addCaller
                   ELSE LastOpt(opts, "WithCaller")[1].b,
     onFatal |-> IF LastOpt(opts, "WithFatalHook") = << >> THEN recv.onFatal
                 ELSE LastOpt(opts, "WithFatalHook")[1].s,
     name |-> recv.name,
     errorOutput |-> IF LastOpt(opts, "ErrorOutput") = << >> THEN recv.errorOutput
                     ELSE LastOpt(opts, "ErrorOutput")[1].s,
     addStack |-> IF LastOpt(opts, "AddStacktrace") = << >> THEN recv.addStack
                  ELSE LastOpt(opts, "AddStacktrace")[1].n,
     callerSkip |-> recv.callerSkip + SkipSum(opts),
     clock |-> IF LastOpt(opts, "WithClock") = << >> THEN recv.clock
               ELSE LastOpt(opts, "WithClock")[1].s]

\* C12: WithOptions applies its options left to right to one copy: WithCaller,
\* ErrorOutput, AddStacktrace, WithFatalHook and WithClock leave the value of
\* the last such option (the receiver's value when there is none), and the
\* caller skip is the receiver's plus the sum of the AddCallerSkip skips.
C12_OptionsLeftToRight ==
    (loc # << >> /\ loc[1].call.op = "WithOptions") =>
        LET opts == loc[1].call.opts
            recv == issued[loc[1].log]
            want == Configured(recv, opts)
            res == heap[ret]
        IN  /\ res.addCaller = want.addCaller
            /\ res.errorOutput = want.errorOutput
            /\ res.addStack = want.addStack
            /\ res.onFatal = want.onFatal
            /\ res.clock = want.clock
            /\ res.callerSkip = recv.callerSkip + SkipSum(opts)

C12_Witness ==
    /\ loc # << >>
    /\ loc[1].call.op = "WithOptions"
    /\ loc[1].call.opts = <<WithFatalHook(WriteThenNoop), WithFatalHook(CustomHook)>>
    /\ issued[loc[1].log].onFatal = WriteThenGoexit
    /\ heap[ret].onFatal = CustomHook

\* C13: an IncreaseLevel whose core cannot be built writes one report to the
\* error output the copy has at that point, leaves the copy's core as it
\* was, and the other options take effect as if it were not in the list.
C13_InvalidIncreaseLevel ==
    (loc # << >> /\ loc[1].call.op = "WithOptions") =>
        LET opts == loc[1].call.opts
            recv == issued[loc[1].log]
            bad == SelectSeq([i \in DOMAIN opts |-> i],
                             LAMBDA i : opts[i] = IncreaseLevel(FALSE))
            rest == SelectSeq(opts, LAMBDA o : o # IncreaseLevel(FALSE))
            outAt(i) == Configured(recv, SubSeq(opts, 1, i - 1)).errorOutput
            alone == WithOptions(Mem(<<recv>>, << >>), 1, rest)
        IN  /\ errLog = [k \in 1 .. Len(bad) |->
                            [w |-> outAt(bad[k]), msg |-> "failed to IncreaseLevel"]]
            /\ heap[ret] = alone.m.heap[alone.ret]
            /\ heap[ret].core = WrappedCore(recv.core, opts)
            /\ rest = << >> => heap[ret] = recv
            /\ ret # loc[1].log

C13_Witness ==
    /\ loc # << >>
    /\ loc[1].call.op = "WithOptions"
    /\ loc[1].call.opts = <<IncreaseLevel(FALSE), ErrorOutput("w1")>>
    /\ errLog = << [w |-> "w0", msg |-> "failed to IncreaseLevel"] >>
    /\ heap[ret].core = issued[loc[1].log].core
    /\ heap[ret].errorOutput = "w1"

\* C20: New with a nil core returns the logger of NewNop (no-op core, discarding
\* error output) with none of the options applied; New with a core returns
\* that core with stderr error output, stack traces above FatalLevel, the
\* default clock, caller skip 0 and no name, with the options applied left
\* to right.
C20_NewNilIsNop ==
    (loc # << >> /\ loc[1].call.op = "New") =>
        LET opts == loc[1].call.opts
            defaults(core, out) ==
                [core |-> core, development |-> FALSE, addCaller |-> FALSE,
                 onFatal |-> NULL, name |-> EmptyStr, errorOutput |-> out,
                 addStack |-> FatalLevel + 1, callerSkip |-> 0, clock |-> DefaultClock]
        IN  IF loc[1].core = NilCore
            THEN /\ heap[ret] = defaults(NopCore, Discard)
                 /\ errLog = << >>
            ELSE heap[ret] = Configured(defaults(loc[1].core, Stderr), opts)

C20_Witness ==
    /\ loc # << >>
    /\ loc[1].call.op = "New"
    /\ loc[1].core = NilCore
    /\ loc[1].call.opts = <<ErrorOutput("w1"), Development>>
    /\ heap[ret].errorOutput = Discard
    /\ ~heap[ret].development

\* the one field an option names
OptionField(opt) ==
    CASE opt.o \in {"WrapCore", "Hooks", "Fields", "IncreaseLevel"} -> "core"
      [] opt.o = "ErrorOutput" -> "errorOutput"
      [] opt.o = "Development" -> "development"
      [] opt.o = "WithCaller" -> "addCaller"
      [] opt.o = "AddCallerSkip" -> "callerSkip"
      [] opt.o = "AddStacktrace" -> "addStack"
      [] opt.o = "WithFatalHook" -> "onFatal"
      [] opt.o = "WithClock" -> "clock"

\* C21: the copy a derivation returns differs from the receiver in the
\* derivation's own field only: Named with a segment in the name, With with
\* a field in the core (the core's own With of the fields), Sugar in the
\* caller skip, a single option in the field it names (the core for
\* WrapCore, Hooks, Fields and IncreaseLevel); the receiver is left alone.
C21_OnlyOwnField ==
    (loc # << >> /\ loc[1].call.op \in {"Named", "With", "Sugar", "WithOptions"}
       /\ ~EmptyArgument(loc[1].call)
       /\ (loc[1].call.op = "WithOptions" => Len(loc[1].call.opts) = 1)) =>
        LET c == loc[1].call
            recv == issued[loc[1].log]
            res == heap[ret]
            changed == {f \in DOMAIN res : res[f] # recv[f]}
        IN  /\ ret # loc[1].log
            /\ heap[loc[1].log] = recv
            /\ DOMAIN res = DOMAIN recv
            /\ CASE c.op = "Named" ->
                      /\ changed = {"name"}
                      /\ res.name = IF recv.name = EmptyStr THEN c.seg
                                    ELSE recv.name \o <<".">> \o c.seg
                 [] c.op = "With" ->
                      /\ changed = {"core"}
                      /\ res.core = CoreWith(recv.core, c.fields)
                 [] c.op = "Sugar" ->
                      /\ changed = {"callerSkip"}
                      /\ res.callerSkip = recv.callerSkip + 2
                 [] c.op = "WithOptions" ->
                      /\ changed \subseteq {OptionField(c.opts[1])}
                      /\ res = Configured(recv, c.opts)

C21_Witness ==
    /\ loc # << >>
    /\ loc[1].call.op = "WithOptions"
    /\ loc[1].call.opts = <<Development>>
    /\ ~issued[loc[1].log].development
    /\ issued[loc[1].log].addCaller = FALSE
    /\ issued[loc[1].log].name = <<"r">>
    /\ heap[ret] = [issued[loc[1].log] EXCEPT !.development = TRUE]

(***************************************************************************)
(* Properties of concurrent derivation, checked under SpecConc.            *)
(***************************************************************************)

\* C8: while goroutines derive children from the shared snapshot, in any
\* interleaving, the shared snapshot keeps its configuration, and the child
\* each finished derivation returned is configured as that derivation run
\* alone on the shared snapshot would configure it.
C8_ConcurrentDerivation ==
    /\ heap[ret] = issued[ret]
    /\ \A w \in DOMAIN pc :
          pc[w] = "done" =>
              LET c == loc[w].call
                  m0 == Mem(<<issued[ret]>>, << >>)
                  alone == CASE c.op = "Named" -> Named(m0, 1, c.seg)
                             [] c.op = "With" -> With(m0, 1, c.fields)
                             [] c.op = "Sugar" -> Sugar(m0, 1)
                             [] c.op = "WithOptions" -> WithOptions(m0, 1, c.opts)
              IN  /\ heap[loc[w].result] = alone.m.heap[alone.ret]
                  /\ (loc[w].result = ret) = (alone.ret = 1)

C8_Witness ==
    /\ \A w \in DOMAIN pc : pc[w] = "done" /\ loc[w].result # ret
    /\ \E v, w \in DOMAIN pc :
          /\ loc[v].call.op = "Named"
          /\ loc[w].call.op = "WithOptions"
          /\ loc[w].l < loc[v].l
          /\ heap[loc[v].result] # heap[loc[w].result]
    /\ pc # << >>

====
